---- MODULE Spec2Model ----
(***************************************************************************)
(* BookNotesBot (bot.py): the users and books collections, the handlers    *)
(* registered on the Telegram application, and the dispatch of updates to  *)
(* them.                                                                   *)
(*                                                                         *)
(* Documents are records.  A field that holds a Python None (an ObjectId   *)
(* or datetime that is not set) holds None; a find_one that matches no     *)
(* document yields NoDoc.  A field that MongoDB has not created yet        *)
(* (ai_review, review_generated_at, a text note's duration) is not in the  *)
(* record's DOMAIN.  datetime.utcnow() is the value of clock, which ticks  *)
(* with every update delivered; an update's message_id is the clock value  *)
(* at its delivery; the ObjectId insert_one assigns is the position of the *)
(* document in the collection.  The Application is built without          *)
(* concurrent_updates, so an update is processed only when the handler of  *)
(* the previous one has returned; tasks holds the handler that is waiting  *)
(* at an await.                                                            *)
(***************************************************************************)
EXTENDS Integers, Sequences, FiniteSets, TLC

VARIABLES users_collection, books_collection, tasks, clock, last

vars == <<users_collection, books_collection, tasks, clock, last>>

(* ------------------------------ bounds -------------------------------- *)
NumUsers == 2
MaxBooks == 2
MaxClock == 6

(* ------------------------------ values -------------------------------- *)
None == 0
NoDoc == [none |-> TRUE]

UserIds == 1..NumUsers
\* an ObjectId that names no document: insert_one never assigns it
MissingId == MaxBooks + 1

\* update.effective_user.username: the account of user 1 has none ("" stands
\* for None), the other accounts have one
Usernames(user_id) == IF user_id = 1 THEN {""} ELSE {"ann"}
\* context.args of /newbook: no argument, or the words of a title
ArgLists == {<< >>, <<"Moby", "Dick">>}
\* update.message.text, and the texts a transcription can return
Contents == {"a", "b"}
\* update.message.voice.duration
Durations == {3}
\* what the chat completion can return, before strip(); a string is the
\* sequence of its characters or words
Completions == {<<"Great">>, <<" ", "\r", "Great", "\f", "\n">>}
\* the characters str.strip() removes, those str.isspace() holds of; one
\* that has no escape in a string here is written as its Python escape
Whitespace ==
    {" ", "\t", "\n", "\r", "\f", "\\x0b",
     "\\x1c", "\\x1d", "\\x1e", "\\x1f", "\\x85", "\\xa0",
     "\\u1680", "\\u2000", "\\u2001", "\\u2002", "\\u2003", "\\u2004",
     "\\u2005", "\\u2006", "\\u2007", "\\u2008", "\\u2009", "\\u200a",
     "\\u2028", "\\u2029", "\\u202f", "\\u205f", "\\u3000"}

(* ------------------------- pure helper functions ---------------------- *)
\* " ".join(context.args): the words with one " " between neighbours
RECURSIVE JoinSpace(_)
JoinSpace(args) ==
    IF Len(args) = 0 THEN << >>
    ELSE IF Len(args) = 1 THEN <<args[1]>>
    ELSE <<args[1], " ">> \o JoinSpace(Tail(args))

\* str.strip(): drop leading and trailing whitespace
RECURSIVE LStrip(_)
LStrip(s) ==
    IF Len(s) > 0 /\ s[1] \in Whitespace THEN LStrip(Tail(s)) ELSE s

RECURSIVE RStrip(_)
RStrip(s) ==
    IF Len(s) > 0 /\ s[Len(s)] \in Whitespace
    THEN RStrip(SubSeq(s, 1, Len(s) - 1)) ELSE s

Strip(s) == RStrip(LStrip(s))

(* --------------------------- the collections -------------------------- *)
\* positions of the documents a filter matches, in collection order
Matching(coll, field, value) ==
    {i \in DOMAIN coll : coll[i][field] = value}

Min(S) == CHOOSE m \in S : \A n \in S : m <= n

\* collection.find_one({field: value})
find_one(coll, field, value) ==
    LET found == Matching(coll, field, value)
    IN  IF found = {} THEN NoDoc ELSE coll[Min(found)]

\* collection.update_one({field: value}, {"$set": {name: v}}), no upsert:
\* the first matching document gets the field, no match changes nothing
update_one_set(coll, field, value, name, v) ==
    IF Matching(coll, field, value) = {} THEN coll
    ELSE LET i == Min(Matching(coll, field, value))
         IN  [coll EXCEPT ![i] =
                 [f \in DOMAIN coll[i] \cup {name} |->
                     IF f = name THEN v ELSE coll[i][f]]]

\* variant: $push with $position 0 puts the note at the front
update_one_push_front(coll, id, note) ==
    [i \in DOMAIN coll |->
        IF coll[i]._id = id
        THEN [coll[i] EXCEPT !.notes = <<note>> \o @]
        ELSE coll[i]]

\* books_collection.update_one({"_id": id}, {"$push": {"notes": note}}):
\* the store appends to the list it holds
update_one_push(coll, id, note) ==
    IF Matching(coll, "_id", id) = {} THEN coll
    ELSE LET i == Min(Matching(coll, "_id", id))
         IN  [coll EXCEPT ![i].notes = Append(@, note)]

\* variant: the defaults are written by $set, on every /start
upsert_user_resetting(coll, user_id, username, now) ==
    IF Matching(coll, "user_id", user_id) = {}
    THEN Append(coll, [user_id         |-> user_id,
                       username        |-> username,
                       last_active     |-> now,
                       created_at      |-> now,
                       current_book_id |-> None])
    ELSE LET i == Min(Matching(coll, "user_id", user_id))
         IN  [coll EXCEPT ![i].username = username, ![i].last_active = now,
                          ![i].created_at = now,
                          ![i].current_book_id = None]

\* users_collection.update_one(..., {"$set", "$setOnInsert"}, upsert=True)
upsert_user(coll, user_id, username, now) ==
    IF Matching(coll, "user_id", user_id) = {}
    THEN Append(coll, [user_id         |-> user_id,
                       username        |-> username,
                       last_active     |-> now,
                       created_at      |-> now,
                       current_book_id |-> None])
    ELSE LET i == Min(Matching(coll, "user_id", user_id))
         IN  [coll EXCEPT ![i].username = username, ![i].last_active = now]

\* variant: the new document replaces the owner's first book, if any
insert_one_replacing(coll, doc) ==
    IF Matching(coll, "user_id", doc.user_id) = {}
    THEN Append(coll, [f \in DOMAIN doc \cup {"_id"} |->
                          IF f = "_id" THEN Len(coll) + 1 ELSE doc[f]])
    ELSE LET i == Min(Matching(coll, "user_id", doc.user_id))
         IN  [coll EXCEPT ![i] =
                 [f \in DOMAIN doc \cup {"_id"} |->
                     IF f = "_id" THEN coll[i]._id ELSE doc[f]]]

\* books_collection.insert_one(book_doc): the store assigns the _id
insert_one(coll, doc) ==
    Append(coll, [f \in DOMAIN doc \cup {"_id"} |->
                     IF f = "_id" THEN Len(coll) + 1 ELSE doc[f]])

inserted_id(coll) == Len(coll) + 1

\* variant: without a pointer the first book of the user is taken
get_current_book_fallback(users, books, user_id) ==
    LET user == find_one(users, "user_id", user_id)
    IN  IF user = NoDoc THEN find_one(books, "user_id", user_id)
        ELSE IF user.current_book_id = None
        THEN find_one(books, "user_id", user_id)
        ELSE find_one(books, "_id", user.current_book_id)

\* BookNotesBot.get_current_book
get_current_book(users, books, user_id) ==
    LET user == find_one(users, "user_id", user_id)
    IN  IF user = NoDoc THEN NoDoc
        ELSE IF user.current_book_id = None THEN NoDoc
        ELSE find_one(books, "_id", user.current_book_id)

(* ------------------------------ replies -------------------------------- *)
\* the reply a handler sends (or the exception it ends with)
Reply(op, user_id, outcome, book_id) ==
    [op |-> op, user_id |-> user_id, outcome |-> outcome, book_id |-> book_id]

\* the reply of an except branch, with the call whose exception
\* logger.error recorded
Failed(reply, call) ==
    [f \in DOMAIN reply \cup {"error"} |->
        IF f = "error" THEN call ELSE reply[f]]

(* ------------------------------- Init ---------------------------------- *)
Init ==
    /\ users_collection = << >>
    /\ books_collection = << >>
    /\ tasks = {}
    /\ clock = 1
    /\ last = Reply("init", None, "none", None)

(* ------------------------------ handlers ------------------------------- *)
\* variant: concurrent_updates(True), an update is handed to its handler
\* without waiting for the handler of the previous update
CanDispatchConcurrently == TRUE

\* when the next update may be processed: Application.builder()
\* .token(...).build() leaves concurrent_updates off, so only after the
\* handler of the previous update is done
CanDispatch == tasks = {}

\* every handler below is the work of one update; Tick is its delivery
Tick ==
    /\ CanDispatch
    /\ clock < MaxClock
    /\ clock' = clock + 1

\* /start
start_command(user_id, username) ==
    /\ users_collection' =
           upsert_user(users_collection, user_id,
                       IF username = "" THEN "Anonymous" ELSE username, clock)
    /\ last' = Reply("start", user_id, "Welcome", None)
    /\ Tick
    /\ UNCHANGED <<books_collection, tasks>>

\* the document /newbook builds
book_doc(user_id, title, now) ==
    [user_id     |-> user_id,
     title       |-> title,
     notes       |-> << >>,
     status      |-> "reading",
     created_at  |-> now,
     finished_at |-> None]

\* /newbook <args>
new_book_command(user_id, args) ==
    /\ Tick
    /\ UNCHANGED tasks
    /\ IF Len(args) = 0
       THEN /\ last' = Reply("newbook", user_id, "InvalidArgument", None)
            /\ UNCHANGED <<users_collection, books_collection>>
       ELSE /\ Len(books_collection) < MaxBooks
            /\ books_collection' =
                   insert_one(books_collection,
                              book_doc(user_id, JoinSpace(args), clock))
            /\ users_collection' =
                   update_one_set(users_collection, "user_id", user_id,
                                  "current_book_id",
                                  inserted_id(books_collection))
            /\ last' = Reply("newbook", user_id, "Started",
                             inserted_id(books_collection))

\* cursor.sort("created_at", -1) over the documents at the positions S
RECURSIVE sort_created_at_desc(_, _)
sort_created_at_desc(books, S) ==
    IF S = {} THEN << >>
    ELSE LET m == CHOOSE i \in S :
                      \A j \in S :
                          \/ books[j].created_at < books[i].created_at
                          \/ (books[j].created_at = books[i].created_at
                                 /\ i <= j)
         IN  <<books[m]>> \o sort_created_at_desc(books, S \ {m})

\* list(books_collection.find({"user_id": user_id}).sort("created_at", -1))
list_books(books, user_id) ==
    sort_created_at_desc(books, Matching(books, "user_id", user_id))

\* /mybooks: find({"user_id": user_id}); the list is only rendered
my_books_command(user_id) ==
    /\ Tick
    /\ last' = IF list_books(books_collection, user_id) = << >>
               THEN Reply("mybooks", user_id, "NoBooks", None)
               ELSE Reply("mybooks", user_id, "BookList", None)
    /\ UNCHANGED <<users_collection, books_collection, tasks>>

\* /currentbook
current_book_command(user_id) ==
    LET current_book ==
            get_current_book(users_collection, books_collection, user_id)
    IN  /\ Tick
        /\ last' = IF current_book = NoDoc
                   THEN Reply("currentbook", user_id, "NoCurrentBook", None)
                   ELSE Reply("currentbook", user_id, "CurrentBook",
                              current_book._id)
        /\ UNCHANGED <<users_collection, books_collection, tasks>>

\* find({"user_id": user_id, "status": "reading"})
ActiveBooks(books, user_id) ==
    {i \in Matching(books, "user_id", user_id) : books[i].status = "reading"}

\* /switchbook: no active book, exactly one, or the keyboard of choices
switch_book_command(user_id) ==
    LET n == Cardinality(ActiveBooks(books_collection, user_id))
    IN  /\ Tick
        /\ last' = IF n = 0
                   THEN Reply("switchbook", user_id, "NoActiveBooks", None)
                   ELSE IF n = 1
                   THEN Reply("switchbook", user_id, "OneActiveBook", None)
                   ELSE Reply("switchbook", user_id, "Menu", None)
        /\ UNCHANGED <<users_collection, books_collection, tasks>>

\* query.data as its "_"-separated parts: <<"switch", x>> is "switch_x".
\* x is the hex of an ObjectId (the id it denotes) or InvalidHex.
InvalidHex == -1

CallbackData(books) ==
    {<<"switch", i>> : i \in DOMAIN books \cup {MissingId, InvalidHex}}
        \cup {<<"switch">>, <<"cancel">>}

\* query.data.startswith("switch_")
StartsWithSwitch(data) == Len(data) >= 2 /\ data[1] = "switch"

\* the write of handle_callback_query: the user's pointer becomes book_id
switch_update(users, user_id, book_id) ==
    update_one_set(users, "user_id", user_id, "current_book_id", book_id)

\* a button press, up to await query.answer()
handle_callback_query(user_id, data) ==
    /\ Tick
    /\ UNCHANGED <<users_collection, books_collection>>
    /\ tasks' = tasks \cup
           {[kind |-> "callback", user_id |-> user_id, data |-> data]}
    /\ last' = Reply("callback", user_id, "Answering", None)

\* query.answer() raises (the query is too old): the handler ends with the
\* exception before it has looked at the data
callback_answer_failed(t) ==
    /\ t \in tasks /\ t.kind = "callback"
    /\ tasks' = tasks \ {t}
    /\ last' = Reply("callback", t.user_id, "AnswerFailed", None)
    /\ UNCHANGED <<users_collection, books_collection, clock>>

\* query.answer() returns: the rest of the handler
callback_answered(t) ==
    LET user_id == t.user_id
        data    == t.data
    IN
    /\ t \in tasks /\ t.kind = "callback"
    /\ tasks' = tasks \ {t}
    /\ UNCHANGED <<books_collection, clock>>
    /\ IF ~StartsWithSwitch(data)
       THEN /\ last' = Reply("callback", user_id, "Ignored", None)
            /\ UNCHANGED users_collection
       ELSE IF data[2] = InvalidHex
       THEN \* ObjectId(...) raises InvalidId before any write
            /\ last' = Reply("callback", user_id, "Raised", None)
            /\ UNCHANGED users_collection
       ELSE /\ users_collection' =
                   switch_update(users_collection, user_id, data[2])
            /\ last' = IF find_one(books_collection, "_id", data[2]) = NoDoc
                       THEN \* book['title'] on None raises TypeError
                            Reply("callback", user_id, "Raised", data[2])
                       ELSE Reply("callback", user_id, "Switched", data[2])

\* the note a text message becomes
text_note(content, now, message_id) ==
    [content    |-> content,
     type       |-> "text",
     timestamp  |-> now,
     message_id |-> message_id]

\* the note a transcribed voice message becomes
voice_note(content, now, message_id, duration) ==
    [content    |-> content,
     type       |-> "voice",
     timestamp  |-> now,
     message_id |-> message_id,
     duration   |-> duration]

\* the append both note handlers perform on the book they resolved
append_note(books, current_book, note) ==
    update_one_push(books, current_book._id, note)

\* a text message that is not a command
handle_text_note(user_id, text_content) ==
    LET current_book ==
            get_current_book(users_collection, books_collection, user_id)
    IN  /\ Tick
        /\ UNCHANGED <<users_collection, tasks>>
        /\ IF current_book = NoDoc
           THEN /\ last' = Reply("text", user_id, "NoCurrentBook", None)
                /\ UNCHANGED books_collection
           ELSE /\ books_collection' =
                       append_note(books_collection, current_book,
                                   text_note(text_content, clock, clock))
                /\ last' = Reply("text", user_id, "NoteSaved",
                                 current_book._id)

\* a voice message, up to the first await after the book is resolved
handle_voice_note(user_id, duration) ==
    LET current_book ==
            get_current_book(users_collection, books_collection, user_id)
    IN  /\ Tick
        /\ UNCHANGED <<users_collection, books_collection>>
        /\ IF current_book = NoDoc
           THEN /\ last' = Reply("voice", user_id, "NoCurrentBook", None)
                /\ UNCHANGED tasks
           ELSE /\ tasks' = tasks \cup
                       {[kind         |-> "voice",
                         user_id      |-> user_id,
                         current_book |-> current_book,
                         message_id   |-> clock,
                         duration     |-> duration]}
                /\ last' = Reply("voice", user_id, "Processing",
                                 current_book._id)

\* the download and transcription succeed: the note is appended
voice_transcribed(t, transcribed_text) ==
    /\ t \in tasks /\ t.kind = "voice"
    /\ tasks' = tasks \ {t}
    /\ books_collection' =
           append_note(books_collection, t.current_book,
                       voice_note(transcribed_text, clock, t.message_id,
                                  t.duration))
    /\ last' = Reply("voice", t.user_id, "NoteSaved", t.current_book._id)
    /\ UNCHANGED <<users_collection, clock>>

\* the note is appended, then the edit_text that confirms it raises inside
\* the try: the except branch replies although the note is saved
voice_edit_failed(t, transcribed_text) ==
    /\ t \in tasks /\ t.kind = "voice"
    /\ tasks' = tasks \ {t}
    /\ books_collection' =
           append_note(books_collection, t.current_book,
                       voice_note(transcribed_text, clock, t.message_id,
                                  t.duration))
    /\ last' = Failed(Reply("voice", t.user_id, "TranscriptionFailed",
                            t.current_book._id), "edit_text")
    /\ UNCHANGED <<users_collection, clock>>

\* variant: the note is pushed before the transcription, with no content
voice_failed_partial(t) ==
    /\ t \in tasks /\ t.kind = "voice"
    /\ tasks' = tasks \ {t}
    /\ books_collection' =
           append_note(books_collection, t.current_book,
                       voice_note("", clock, t.message_id, t.duration))
    /\ last' = Failed(Reply("voice", t.user_id, "TranscriptionFailed",
                            t.current_book._id), "transcribe")
    /\ UNCHANGED <<users_collection, clock>>

\* the download or the transcription raises: the except branch replies
voice_failed(t) ==
    /\ t \in tasks /\ t.kind = "voice"
    /\ tasks' = tasks \ {t}
    /\ last' = Failed(Reply("voice", t.user_id, "TranscriptionFailed",
                            t.current_book._id), "transcribe")
    /\ UNCHANGED <<users_collection, books_collection, clock>>

\* str(n) of an f-string: the decimal digits of n
Digits == <<"0", "1", "2", "3", "4", "5", "6", "7", "8", "9">>

RECURSIVE IntToStr(_)
IntToStr(n) ==
    IF n < 10 THEN <<Digits[n + 1]>>
    ELSE IntToStr(n \div 10) \o <<Digits[(n % 10) + 1]>>

\* variant: the block is numbered by the index enumerate() yields
note_block_zero_based(i, note) ==
    <<"Note ">> \o IntToStr(i) \o <<": ", note.content>>

\* f"Note {i+1}: {note['content']}" for the pair (i, note) of enumerate()
note_block(i, note) ==
    <<"Note ">> \o IntToStr(i + 1) \o <<": ", note.content>>

\* "\n\n".join([... for i, note in enumerate(notes)]), from index i on
RECURSIVE notes_text_from(_, _)
notes_text_from(notes, i) ==
    IF i >= Len(notes) THEN << >>
    ELSE IF i = Len(notes) - 1 THEN note_block(i, notes[i + 1])
    ELSE note_block(i, notes[i + 1]) \o <<"\n\n">>
             \o notes_text_from(notes, i + 1)

notes_text(notes) == notes_text_from(notes, 0)

\* the prompt of generate_ai_review: the fixed text around title and notes
PromptHead ==
    <<"\nBased on the following personal reading notes for the book \"">>
PromptMid ==
    <<"\", write a thoughtful and comprehensive book review. \n\nReading Notes:\n">>
PromptTail ==
    <<"\n\nPlease write a review that covers:\n1. Overall impression and rating\n2. Key themes and main ideas\n3. Strengths and notable aspects\n4. Any criticisms or weaknesses mentioned\n5. Personal takeaways and recommendations\n\nWrite in a personal, engaging tone as if the reader took these notes themselves. Keep it concise but insightful (200-400 words).\n        ">>

review_prompt(book_title, text) ==
    PromptHead \o book_title \o PromptMid \o text \o PromptTail

\* the reply of a review whose generation was requested, with the prompt
\* that was sent to the chat completion
ReviewReply(user_id, outcome, current_book) ==
    [op |-> "review", user_id |-> user_id, outcome |-> outcome,
     book_id |-> current_book._id,
     prompt |-> review_prompt(current_book.title,
                              notes_text(current_book.notes))]

\* /review, up to the await of the generation
generate_review_command(user_id) ==
    LET current_book ==
            get_current_book(users_collection, books_collection, user_id)
    IN  /\ Tick
        /\ UNCHANGED <<users_collection, books_collection>>
        /\ IF current_book = NoDoc
           THEN /\ last' = Reply("review", user_id, "NoCurrentBook", None)
                /\ UNCHANGED tasks
           ELSE IF Len(current_book.notes) = 0
           THEN /\ last' = Reply("review", user_id, "NoNotes",
                                 current_book._id)
                /\ UNCHANGED tasks
           ELSE /\ tasks' = tasks \cup
                       {[kind         |-> "review",
                         user_id      |-> user_id,
                         current_book |-> current_book,
                         message_id   |-> clock]}
                /\ last' = Reply("review", user_id, "Generating",
                                 current_book._id)

\* the two fields a successful generation writes
review_update(books, id, review, now) ==
    update_one_set(update_one_set(books, "_id", id, "ai_review", review),
                   "_id", id, "review_generated_at", now)

\* generate_ai_review returned: the stripped completion is saved
review_generated(t, completion) ==
    /\ t \in tasks /\ t.kind = "review"
    /\ tasks' = tasks \ {t}
    /\ books_collection' =
           review_update(books_collection, t.current_book._id,
                         Strip(completion), clock)
    /\ last' = ReviewReply(t.user_id, "Review", t.current_book)
    /\ UNCHANGED <<users_collection, clock>>

\* the review is saved, then the edit_text that shows it raises inside the
\* try: the except branch replies although the review is saved
review_edit_failed(t, completion) ==
    /\ t \in tasks /\ t.kind = "review"
    /\ tasks' = tasks \ {t}
    /\ books_collection' =
           review_update(books_collection, t.current_book._id,
                         Strip(completion), clock)
    /\ last' = Failed(ReviewReply(t.user_id, "GenerationFailed",
                                  t.current_book), "edit_text")
    /\ UNCHANGED <<users_collection, clock>>

\* variant: review_generated_at is written although the generation raised
review_failed_partial(t) ==
    /\ t \in tasks /\ t.kind = "review"
    /\ tasks' = tasks \ {t}
    /\ books_collection' =
           update_one_set(books_collection, "_id", t.current_book._id,
                          "review_generated_at", clock)
    /\ last' = Failed(ReviewReply(t.user_id, "GenerationFailed",
                                  t.current_book), "generate_ai_review")
    /\ UNCHANGED <<users_collection, clock>>

\* generate_ai_review raised: the except branch replies
review_failed(t) ==
    /\ t \in tasks /\ t.kind = "review"
    /\ tasks' = tasks \ {t}
    /\ last' = Failed(ReviewReply(t.user_id, "GenerationFailed",
                                  t.current_book), "generate_ai_review")
    /\ UNCHANGED <<users_collection, books_collection, clock>>

\* variant: /finish on a finished book puts it back to reading
finish_update_toggle(books, current_book, now) ==
    IF current_book.status = "finished"
    THEN update_one_set(books, "_id", current_book._id, "status", "reading")
    ELSE update_one_set(update_one_set(books, "_id", current_book._id,
                                       "status", "finished"),
                        "_id", current_book._id, "finished_at", now)

\* the first write of /finish: status and finished_at of the resolved book
finish_update(books, current_book, now) ==
    update_one_set(update_one_set(books, "_id", current_book._id,
                                  "status", "finished"),
                   "_id", current_book._id, "finished_at", now)

\* variant: the pointer is left as it was
clear_current_skipped(users, user_id) == users

\* the second write of /finish: the user's pointer is cleared
clear_current(users, user_id) ==
    update_one_set(users, "user_id", user_id, "current_book_id", None)

\* variant: the book to finish is looked up as the caller's first book
\* that is still reading, not through current_book_id
finish_book_command_first_reading(user_id) ==
    LET reading == {i \in Matching(books_collection, "user_id", user_id) :
                       books_collection[i].status = "reading"}
        current_book == IF reading = {} THEN NoDoc
                        ELSE books_collection[Min(reading)]
    IN  /\ Tick
        /\ UNCHANGED tasks
        /\ IF current_book = NoDoc
           THEN /\ last' = Reply("finish", user_id, "NoCurrentBook", None)
                /\ UNCHANGED <<users_collection, books_collection>>
           ELSE /\ books_collection' =
                       finish_update(books_collection, current_book, clock)
                /\ users_collection' =
                       clear_current(users_collection, user_id)
                /\ last' = Reply("finish", user_id, "Finished",
                                 current_book._id)

\* /finish
finish_book_command(user_id) ==
    LET current_book ==
            get_current_book(users_collection, books_collection, user_id)
    IN  /\ Tick
        /\ UNCHANGED tasks
        /\ IF current_book = NoDoc
           THEN /\ last' = Reply("finish", user_id, "NoCurrentBook", None)
                /\ UNCHANGED <<users_collection, books_collection>>
           ELSE /\ books_collection' =
                       finish_update(books_collection, current_book, clock)
                /\ users_collection' =
                       clear_current(users_collection, user_id)
                /\ last' = Reply("finish", user_id, "Finished",
                                 current_book._id)

\* variant: among equally noted books the one found last wins
most_noted_book_last(books, user_id) ==
    LET mine == Matching(books, "user_id", user_id)
        best == {i \in mine :
                   \A j \in mine : Len(books[j].notes) <= Len(books[i].notes)}
    IN  CHOOSE i \in best : \A j \in best : j <= i

\* max(books, key=lambda b: len(b["notes"])): the first book, in the
\* order find() yields them, that no other book exceeds
most_noted_book(books, user_id) ==
    LET mine == Matching(books, "user_id", user_id)
    IN  Min({i \in mine :
               \A j \in mine : Len(books[j].notes) <= Len(books[i].notes)})

\* /stats
stats_command(user_id) ==
    /\ Tick
    /\ last' = IF Matching(books_collection, "user_id", user_id) = {}
               THEN Reply("stats", user_id, "NoBooks", None)
               ELSE Reply("stats", user_id, "Stats",
                          most_noted_book(books_collection, user_id))
    /\ UNCHANGED <<users_collection, books_collection, tasks>>

(* ------------------------------ dispatch ------------------------------- *)
\* the update queue hands one update to the handler registered for it, or
\* a suspended handler resumes
Next ==
    \/ \E user_id \in UserIds : \E username \in Usernames(user_id) :
           start_command(user_id, username)
    \/ \E user_id \in UserIds, args \in ArgLists :
           new_book_command(user_id, args)
    \/ \E user_id \in UserIds : my_books_command(user_id)
    \/ \E user_id \in UserIds : current_book_command(user_id)
    \/ \E user_id \in UserIds : switch_book_command(user_id)
    \/ \E user_id \in UserIds, data \in CallbackData(books_collection) :
           handle_callback_query(user_id, data)
    \/ \E user_id \in UserIds, text_content \in Contents :
           handle_text_note(user_id, text_content)
    \/ \E user_id \in UserIds, duration \in Durations :
           handle_voice_note(user_id, duration)
    \/ \E user_id \in UserIds : generate_review_command(user_id)
    \/ \E user_id \in UserIds : finish_book_command(user_id)
    \/ \E user_id \in UserIds : stats_command(user_id)
    \* a handler that was awaiting its external call goes on
    \/ \E t \in tasks : \E transcribed_text \in Contents :
           voice_transcribed(t, transcribed_text)
    \/ \E t \in tasks : voice_failed(t)
    \/ \E t \in tasks : \E completion \in Completions :
           review_generated(t, completion)
    \/ \E t \in tasks : review_failed(t)
    \/ \E t \in tasks : \E transcribed_text \in Contents :
           voice_edit_failed(t, transcribed_text)
    \/ \E t \in tasks : \E completion \in Completions :
           review_edit_failed(t, completion)
    \/ \E t \in tasks : callback_answered(t)
    \/ \E t \in tasks : callback_answer_failed(t)

\* the bot as built and run: updates are processed one after the other
Spec == Init /\ [][Next]_vars

(* ======================== properties of the bot ======================== *)
\* the current_book_id of a user, None when the user has no record
pointer_of(users, user_id) ==
    LET user == find_one(users, "user_id", user_id)
    IN  IF user = NoDoc THEN None ELSE user.current_book_id

StatusOf(books, id) ==
    LET book == find_one(books, "_id", id)
    IN  IF book = NoDoc THEN "missing" ELSE book.status

\* C1: right after a /newbook with a title completes, get_current_book of
\* that user is the book the command created.
C1_NewBookIsCurrent ==
    (last.op = "newbook" /\ last.outcome = "Started") =>
        /\ get_current_book(users_collection, books_collection,
                            last.user_id) # NoDoc
        /\ get_current_book(users_collection, books_collection,
                            last.user_id)._id = last.book_id

\* C2 (as stated): when every handler has completed, no user's
\* current_book_id references a finished book.
C2_NoCurrentBookFinished ==
    tasks = {} =>
        \A i \in DOMAIN users_collection :
            StatusOf(books_collection,
                     users_collection[i].current_book_id) # "finished"

\* C2 (amended): right after a successful /finish the book it marked is
\* finished and the finishing user's current_book_id is None, so that
\* user has no current book.
C2_FinishClearsOwnPointer ==
    (last.op = "finish" /\ last.outcome = "Finished") =>
        /\ StatusOf(books_collection, last.book_id) = "finished"
        /\ pointer_of(users_collection, last.user_id) = None
        /\ get_current_book(users_collection, books_collection,
                            last.user_id) = NoDoc

\* a /finish has just succeeded for a user who has a record and a book
C2_Witness ==
    /\ last.op = "finish" /\ last.outcome = "Finished"
    /\ find_one(users_collection, "user_id", last.user_id) # NoDoc
    /\ find_one(books_collection, "_id", last.book_id).user_id = last.user_id

\* C3: the notes of a book do not change in any step taken while its
\* status is finished.
C3_NoAppendToFinished ==
    [][\A i \in DOMAIN books_collection :
          books_collection[i].status = "finished" =>
              books_collection'[i].notes = books_collection[i].notes]_vars

\* C4: a switch callback naming a book id for which the user owns no book
\* does not report a switch and leaves the user's current_book_id as it was.
C4_SwitchUnownedKeepsPointer ==
    [][(/\ last'.op = "callback"
        /\ last'.book_id # None
        /\ \/ find_one(books_collection, "_id", last'.book_id) = NoDoc
           \/ find_one(books_collection, "_id", last'.book_id).user_id
                  # last'.user_id)
       => /\ last'.outcome # "Switched"
          /\ pointer_of(users_collection', last'.user_id)
                 = pointer_of(users_collection, last'.user_id)]_vars

\* C5: every current_book_id that is set references an existing book whose
\* user_id is that user.
C5_PointerReferencesOwnBook ==
    \A i \in DOMAIN users_collection :
        users_collection[i].current_book_id # None =>
            /\ find_one(books_collection, "_id",
                        users_collection[i].current_book_id) # NoDoc
            /\ find_one(books_collection, "_id",
                        users_collection[i].current_book_id).user_id
                   = users_collection[i].user_id

\* C6: the notes of every book are in the order their messages arrived:
\* an earlier position holds the note of an earlier message, also when the
\* earlier message is a voice note that had to wait for its transcription.
C6_NotesInArrivalOrder ==
    \A i \in DOMAIN books_collection :
        \A j, k \in DOMAIN books_collection[i].notes :
            j < k => books_collection[i].notes[j].message_id
                         < books_collection[i].notes[k].message_id

\* a transcribed voice note is followed in its book by a later text note
C6_Witness ==
    \E i \in DOMAIN books_collection :
        \E j, k \in DOMAIN books_collection[i].notes :
            /\ k = j + 1
            /\ books_collection[i].notes[j].type = "voice"
            /\ books_collection[i].notes[k].type = "text"
            /\ books_collection[i].notes[j].content
                   # books_collection[i].notes[k].content

\* C8: no step changes a book's status from finished to anything else.
C8_FinishedStaysFinished ==
    [][\A i \in DOMAIN books_collection :
          books_collection[i].status = "finished" =>
              books_collection'[i].status = "finished"]_vars

\* a note was appended to a book after it was finished, and the book is
\* still finished
C8_Witness ==
    /\ last.op = "text" /\ last.outcome = "NoteSaved"
    /\ StatusOf(books_collection, last.book_id) = "finished"

\* C9: finished_at is None while the book is reading, is written in the
\* step that finishes the book, and is never written again.
C9_FinishedAtWrittenOnce ==
    [][\A i \in DOMAIN books_collection :
          /\ (books_collection[i].status = "reading"
                 => books_collection[i].finished_at = None)
          /\ (books_collection[i].finished_at # None
                 => books_collection'[i].finished_at
                        = books_collection[i].finished_at)]_vars

\* C10: a /finish that directly follows a successful /finish of the same
\* user replies NoCurrentBook and changes no book and no user record.
C10_SecondFinishFails ==
    [][(/\ last.op = "finish" /\ last.outcome = "Finished"
        /\ last'.op = "finish" /\ last'.user_id = last.user_id
        /\ clock' = clock + 1)
       => /\ last'.outcome = "NoCurrentBook"
          /\ books_collection' = books_collection
          /\ users_collection' = users_collection]_vars

\* the only user with a record finished a book one update ago and has just
\* been told there is no current book
C10_Witness ==
    /\ last.op = "finish" /\ last.outcome = "NoCurrentBook"
    /\ Len(users_collection) = 1
    /\ users_collection[1].user_id = last.user_id
    /\ \E i \in DOMAIN books_collection :
          /\ books_collection[i].status = "finished"
          /\ books_collection[i].finished_at = clock - 2

\* C11: /start leaves exactly one record for its user, adds a record only
\* when there was none, and changes neither current_book_id nor created_at
\* (nor the user_id) of any record that existed.
C11_StartIsIdempotent ==
    [][(last'.op = "start" /\ clock' = clock + 1) =>
          /\ Cardinality(Matching(users_collection', "user_id",
                                  last'.user_id)) = 1
          /\ Len(users_collection') =
                 IF Matching(users_collection, "user_id", last'.user_id) = {}
                 THEN Len(users_collection) + 1
                 ELSE Len(users_collection)
          /\ \A i \in DOMAIN users_collection :
                /\ users_collection'[i].user_id
                       = users_collection[i].user_id
                /\ users_collection'[i].current_book_id
                       = users_collection[i].current_book_id
                /\ users_collection'[i].created_at
                       = users_collection[i].created_at]_vars

\* /start was repeated by a user who has a current book: the record still
\* points at it and still has its first created_at
C11_Witness ==
    /\ last.op = "start"
    /\ \E i \in DOMAIN users_collection :
          /\ users_collection[i].user_id = last.user_id
          /\ users_collection[i].current_book_id # None
          /\ users_collection[i].last_active = clock - 1
          /\ users_collection[i].created_at < clock - 1

\* the review fields a book document has
ReviewFields(book) ==
    [f \in DOMAIN book \cap {"ai_review", "review_generated_at"} |-> book[f]]

\* the except branch replied because this call raised
FailedAt(reply, call) ==
    /\ "error" \in DOMAIN reply
    /\ reply.error = call

\* C12: when the chat completion call raises, the book's ai_review and
\* review_generated_at are what the document read at the review request
\* held, and no book changes; after any step a book has both review fields
\* or neither.
C12_FailedReviewWritesNothing ==
    [][/\ (last'.op = "review" /\ FailedAt(last', "generate_ai_review")) =>
             /\ last'.outcome = "GenerationFailed"
             /\ books_collection' = books_collection
             /\ \A t \in tasks \ tasks' :
                   ReviewFields(find_one(books_collection', "_id",
                                         t.current_book._id))
                       = ReviewFields(t.current_book)
       /\ \A i \in DOMAIN books_collection' :
             ("ai_review" \in DOMAIN books_collection'[i])
                 <=> ("review_generated_at" \in DOMAIN books_collection'[i])
      ]_vars

\* a generation failed for a book that holds the review of an earlier,
\* successful generation
C12_Witness ==
    /\ last.op = "review" /\ last.outcome = "GenerationFailed"
    /\ FailedAt(last, "generate_ai_review")
    /\ "ai_review" \in DOMAIN find_one(books_collection, "_id", last.book_id)
    /\ find_one(books_collection, "_id", last.book_id).review_generated_at
           < clock

\* the numerals of the block numbers that occur within the bounds
Numerals == <<"1", "2", "3", "4", "5", "6", "7", "8", "9">>

\* the four tokens "Note ", k, ": ", content stand at position pos of p
BlockAt(p, pos, k, content) ==
    /\ pos >= 1 /\ pos + 3 <= Len(p)
    /\ p[pos] = "Note " /\ p[pos + 1] = Numerals[k]
    /\ p[pos + 2] = ": " /\ p[pos + 3] = content

\* the prompt p holds one block per note, numbered from 1 by position in
\* notes, in that order, neighbours separated by a blank line, and no other
\* block
HoldsBlocksOf(p, notes) ==
    /\ Cardinality({q \in DOMAIN p : p[q] = "Note "}) = Len(notes)
    /\ \E s \in DOMAIN p :
          \A k \in DOMAIN notes :
              /\ BlockAt(p, s + 5 * (k - 1), k, notes[k].content)
              /\ k > 1 => p[s + 5 * (k - 1) - 1] = "\n\n"

\* C13: a review whose generation is requested sends a prompt that holds
\* the blocks "Note 1: n_1" .. "Note k: n_k" of the book's stored notes, in
\* order and joined by blank lines; a /review on a current book without
\* notes replies NoNotes, requests no generation and changes no book.
C13_PromptListsNotesInOrder ==
    [][/\ (last'.op = "review" /\ "prompt" \in DOMAIN last') =>
             /\ Len(find_one(books_collection', "_id",
                             last'.book_id).notes) > 0
             /\ HoldsBlocksOf(last'.prompt,
                              find_one(books_collection', "_id",
                                       last'.book_id).notes)
       /\ (/\ last'.op = "review" /\ clock' = clock + 1
           /\ get_current_book(users_collection, books_collection,
                               last'.user_id) # NoDoc
           /\ Len(get_current_book(users_collection, books_collection,
                                   last'.user_id).notes) = 0) =>
             /\ last'.outcome = "NoNotes"
             /\ "prompt" \notin DOMAIN last'
             /\ tasks' = tasks
             /\ books_collection' = books_collection]_vars

\* a review was generated from a book with two notes of different content
C13_Witness ==
    /\ last.op = "review" /\ last.outcome = "Review"
    /\ Len(find_one(books_collection, "_id", last.book_id).notes) = 2
    /\ find_one(books_collection, "_id", last.book_id).notes[1].content
           # find_one(books_collection, "_id", last.book_id).notes[2].content

\* C14: /stats of a user with books names a book of that user with the
\* most notes, and among the user's books with that many notes the one
\* created first.
C14_MostNotedEarliestOnTie ==
    last.op = "stats" =>
        /\ last.outcome = "Stats"
               <=> Matching(books_collection, "user_id", last.user_id) # {}
        /\ last.outcome = "Stats" =>
              /\ find_one(books_collection, "_id", last.book_id).user_id
                     = last.user_id
              /\ \A i \in Matching(books_collection, "user_id", last.user_id) :
                    /\ Len(books_collection[i].notes)
                           <= Len(find_one(books_collection, "_id",
                                           last.book_id).notes)
                    /\ (/\ Len(books_collection[i].notes)
                               = Len(find_one(books_collection, "_id",
                                              last.book_id).notes)
                        /\ books_collection[i]._id # last.book_id)
                       => books_collection[i].created_at
                              > find_one(books_collection, "_id",
                                         last.book_id).created_at

\* /stats was asked by a user with two equally noted books
C14_Witness ==
    /\ last.op = "stats" /\ last.outcome = "Stats"
    /\ \E i, j \in Matching(books_collection, "user_id", last.user_id) :
          /\ i # j
          /\ Len(books_collection[i].notes) = Len(books_collection[j].notes)

\* C15: for every user who owns no book, the book list is empty, /mybooks
\* and /stats reply that there are no books, and get_current_book is absent.
C15_NoBooksMeansNothingCurrent ==
    \A u \in UserIds :
        Matching(books_collection, "user_id", u) = {} =>
            /\ list_books(books_collection, u) = << >>
            /\ (last.user_id = u /\ last.op \in {"mybooks", "stats"})
                   => last.outcome = "NoBooks"
            /\ get_current_book(users_collection, books_collection, u)
                   = NoDoc

\* C16: while a handler of one user awaits its transcription or generation,
\* a command of any other user can be handled.
C16_OtherUsersNotBlocked ==
    \A t \in {x \in tasks : x.kind \in {"voice", "review"}} :
        \A u \in UserIds \ {t.user_id} :
            clock < MaxClock => ENABLED current_book_command(u)

\* C17: a step taken by one user changes no book document of another user
\* and no other user's current_book_id.
C17_UsersAreIsolated ==
    [][\A v \in UserIds \ {last'.user_id} :
          /\ \A i \in DOMAIN books_collection :
                books_collection[i].user_id = v =>
                    books_collection'[i] = books_collection[i]
          /\ pointer_of(users_collection', v)
                 = pointer_of(users_collection, v)]_vars

\* the user has no record, an unset pointer, or a pointer to no book
HasNoCurrentBook(users, books, u) ==
    \/ pointer_of(users, u) = None
    \/ Matching(books, "_id", pointer_of(users, u)) = {}

\* C18: a text note, voice note, /review or /finish of a user without a
\* current book replies NoCurrentBook, changes no book and no user record,
\* and starts no transcription or generation.
C18_NoCurrentBookChangesNothing ==
    [][(/\ clock' = clock + 1
        /\ last'.op \in {"text", "voice", "review", "finish"}
        /\ HasNoCurrentBook(users_collection, books_collection,
                            last'.user_id))
       => /\ last'.outcome = "NoCurrentBook"
          /\ books_collection' = books_collection
          /\ users_collection' = users_collection
          /\ tasks' = tasks
          /\ "prompt" \notin DOMAIN last']_vars

\* a user whose pointer names no stored book was told so after a note
\* or command, while books exist
C18_Witness ==
    /\ last.op \in {"text", "voice", "review", "finish"}
    /\ last.outcome = "NoCurrentBook"
    /\ pointer_of(users_collection, last.user_id) = MissingId
    /\ Matching(books_collection, "user_id", last.user_id) # {}

\* the documents of a sequence, as a set
Range(seq) == {seq[i] : i \in DOMAIN seq}

\* C19: a /newbook that starts a book leaves every existing book document
\* as it was and in its owner's book list; it adds one book (reading, no
\* notes, finished_at None, no review) and changes of the user records only
\* the caller's current_book_id.
C19_NewBookLeavesOthersAlone ==
    [][(last'.op = "newbook" /\ last'.outcome = "Started") =>
          /\ Len(books_collection') = Len(books_collection) + 1
          /\ \A i \in DOMAIN books_collection :
                books_collection'[i] = books_collection[i]
          /\ \A u \in UserIds :
                Range(list_books(books_collection, u))
                    \subseteq Range(list_books(books_collection', u))
          /\ LET new == books_collection'[Len(books_collection')]
             IN  /\ new._id = last'.book_id
                 /\ new.user_id = last'.user_id
                 /\ new.status = "reading"
                 /\ new.notes = << >>
                 /\ new.finished_at = None
                 /\ ReviewFields(new) = ReviewFields(NoDoc)
          /\ Len(users_collection') = Len(users_collection)
          /\ \A i \in DOMAIN users_collection :
                IF users_collection[i].user_id = last'.user_id
                THEN users_collection'[i] =
                         [users_collection[i] EXCEPT
                             !.current_book_id = last'.book_id]
                ELSE users_collection'[i] = users_collection[i]
          /\ tasks' = tasks]_vars

\* a user whose current book had notes started another book
C19_Witness ==
    /\ last.op = "newbook" /\ last.outcome = "Started"
    /\ \E i \in Matching(books_collection, "user_id", last.user_id) :
          /\ books_collection[i]._id # last.book_id
          /\ Len(books_collection[i].notes) > 0
    /\ pointer_of(users_collection, last.user_id) = last.book_id

\* s is an initial segment of t
IsPrefix(s, t) ==
    /\ Len(s) <= Len(t)
    /\ SubSeq(t, 1, Len(s)) = s

\* C20: over every step of every handler, each book document
\* stays in the collection under its _id and its notes before the step are
\* an initial segment of its notes after it.
C20_NotesOnlyGrowAtEnd ==
    [][\A i \in DOMAIN books_collection :
          /\ i \in DOMAIN books_collection'
          /\ books_collection'[i]._id = books_collection[i]._id
          /\ IsPrefix(books_collection[i].notes,
                      books_collection'[i].notes)]_vars

\* a review was saved on a book that holds two notes, a text and a voice one
C20_Witness ==
    /\ last.op = "review" /\ last.outcome = "Review"
    /\ \E i \in DOMAIN books_collection :
          /\ books_collection[i]._id = last.book_id
          /\ "ai_review" \in DOMAIN books_collection[i]
          /\ Len(books_collection[i].notes) = 2
          /\ books_collection[i].notes[1].type # books_collection[i].notes[2].type

\* C21: a voice message whose download or transcription fails appends no
\* note. Receiving the message writes nothing, the failure follows the
\* receipt directly and writes nothing either, so every book and every user
\* record is as it was before the message came in.
C21_FailedVoiceWritesNothing ==
    [][/\ (last'.op = "voice" /\ last'.outcome = "Processing")
          => /\ clock' = clock + 1
             /\ books_collection' = books_collection
             /\ users_collection' = users_collection
       /\ (last'.op = "voice" /\ FailedAt(last', "transcribe"))
          => /\ last'.outcome = "TranscriptionFailed"
             /\ last.op = "voice" /\ last.outcome = "Processing"
             /\ last.user_id = last'.user_id
             /\ last.book_id = last'.book_id
             /\ books_collection' = books_collection
             /\ users_collection' = users_collection
             /\ tasks' = {}]_vars

\* a voice message failed on a book that already holds a note
C21_Witness ==
    /\ last.op = "voice" /\ last.outcome = "TranscriptionFailed"
    /\ FailedAt(last, "transcribe")
    /\ \E i \in DOMAIN books_collection :
          /\ books_collection[i]._id = last.book_id
          /\ Len(books_collection[i].notes) = 1
    /\ tasks = {}

\* C22: a /finish that succeeds marks exactly the book the caller's
\* pointer references at that moment and clears that pointer, no other
\* user's; and a pointer that a /newbook or a switch has set only ever goes
\* back to None through the owner's own /finish of the book it references.
C22_FinishClearsOnlyFinishedBook ==
    [][/\ (last'.op = "finish" /\ last'.outcome = "Finished")
          => /\ pointer_of(users_collection, last'.user_id) = last'.book_id
             /\ \A i \in DOMAIN books_collection :
                   books_collection'[i] # books_collection[i]
                   => /\ books_collection[i]._id = last'.book_id
                      /\ books_collection'[i].status = "finished"
             /\ StatusOf(books_collection', last'.book_id) = "finished"
             /\ pointer_of(users_collection', last'.user_id) = None
             /\ \A v \in UserIds \ {last'.user_id} :
                   pointer_of(users_collection', v)
                       = pointer_of(users_collection, v)
       \* (a step that leaves the user records alone clears no pointer)
       /\ users_collection' # users_collection
          => \A u \in UserIds :
                (/\ pointer_of(users_collection, u) # None
                 /\ pointer_of(users_collection', u) = None)
                => /\ last'.op = "finish" /\ last'.outcome = "Finished"
                   /\ last'.user_id = u
                   /\ last'.book_id = pointer_of(users_collection, u)]_vars

\* a user started a second book and finished it: the first one, no longer
\* current, is still reading and the pointer is cleared
C22_Witness ==
    /\ last.op = "finish" /\ last.outcome = "Finished"
    /\ pointer_of(users_collection, last.user_id) = None
    /\ StatusOf(books_collection, last.book_id) = "finished"
    /\ \E i \in Matching(books_collection, "user_id", last.user_id) :
          /\ books_collection[i]._id < last.book_id
          /\ books_collection[i].status = "reading"
====
